---- MODULE Spec2Model ----
(***************************************************************************)
(* BabyStatsAnalyzer (src/app.py, duplicated in src/main.py): the pipeline *)
(* run_analysis = parse_standard_rows; analyze_events_by_day;              *)
(* format_other_events; get_tables over one input text and one flag.       *)
(*                                                                         *)
(* Text is modelled as sequences of one-character strings.  The input text *)
(* `data` is kept as the sequence of its lines as splitlines()/strip()     *)
(* deliver them; a line is the record of the tokens the regular expression *)
(* of parse_standard_rows looks at.                                        *)
(***************************************************************************)
EXTENDS Integers, Sequences, FiniteSets, TLC

VARIABLES data, hide_stale_events, events_by_date, day_stats,
          global_event_count, global_event_original, pc, err, result,
          calls, earlier

vars == <<data, hide_stale_events, events_by_date, day_stats,
          global_event_count, global_event_original, pc, err, result,
          calls, earlier>>

-----------------------------------------------------------------------------
(* Characters and the str methods the code uses.                           *)

UpperCase == <<"A", "B", "C", "D", "E", "F", "G", "H", "I", "J", "K", "L", "M",
               "N", "O", "P", "Q", "R", "S", "T", "U", "V", "W", "X", "Y", "Z">>

LowerCase == <<"a", "b", "c", "d", "e", "f", "g", "h", "i", "j", "k", "l", "m",
               "n", "o", "p", "q", "r", "s", "t", "u", "v", "w", "x", "y", "z">>

Digits == <<"0", "1", "2", "3", "4", "5", "6", "7", "8", "9">>

IndexIn(c, table) == CHOOSE i \in 1..Len(table) : table[i] = c

UpperSet == {UpperCase[i] : i \in 1..26}
LowerSet == {LowerCase[i] : i \in 1..26}
DigitSet == {Digits[i] : i \in 1..10}

IsUpper(c) == c \in UpperSet
IsLower(c) == c \in LowerSet
IsAlpha(c) == IsUpper(c) \/ IsLower(c)
IsDigit(c) == c \in DigitSet
IsSpace(c) == c = " "

DigitValues == [c \in DigitSet |-> IndexIn(c, Digits) - 1]
DigitVal(c) == DigitValues[c]

LowerOf == [c \in UpperSet |-> LowerCase[IndexIn(c, UpperCase)]]

\* ord(): the code point, for the characters the model uses.
OrdOf ==
  [c \in UpperSet \cup LowerSet \cup DigitSet \cup {" ", ",", "-", ":"} |->
     IF c \in UpperSet THEN 64 + IndexIn(c, UpperCase)
     ELSE IF c \in LowerSet THEN 96 + IndexIn(c, LowerCase)
     ELSE IF c \in DigitSet THEN 47 + IndexIn(c, Digits)
     ELSE IF c = " " THEN 32
     ELSE IF c = "," THEN 44
     ELSE IF c = "-" THEN 45
     ELSE 58]

Ord(c) == OrdOf[c]

CharLower(c) == IF IsUpper(c) THEN LowerOf[c] ELSE c

\* str.lower()
str_lower(s) == [i \in 1..Len(s) |-> CharLower(s[i])]

RECURSIVE str_lstrip(_)
str_lstrip(s) ==
  IF s # <<>> /\ IsSpace(Head(s)) THEN str_lstrip(Tail(s)) ELSE s

RECURSIVE str_rstrip(_)
str_rstrip(s) ==
  IF s # <<>> /\ IsSpace(s[Len(s)]) THEN str_rstrip(SubSeq(s, 1, Len(s) - 1)) ELSE s

\* str.strip()
str_strip(s) == str_rstrip(str_lstrip(s))

\* str.lstrip("0")
RECURSIVE lstrip_zero(_)
lstrip_zero(s) ==
  IF s # <<>> /\ Head(s) = "0" THEN lstrip_zero(Tail(s)) ELSE s

Spaces(n) == [i \in 1..n |-> " "]

\* str.rjust(width): pad with spaces on the left up to width.
str_rjust(s, width) ==
  IF Len(s) >= width THEN s ELSE Spaces(width - Len(s)) \o s

\* Python's < on str: lexicographic by code point, a proper prefix first.
RECURSIVE StrLess(_, _)
StrLess(a, b) ==
  IF b = <<>> THEN FALSE
  ELSE IF a = <<>> THEN TRUE
  ELSE IF Ord(Head(a)) # Ord(Head(b)) THEN Ord(Head(a)) < Ord(Head(b))
  ELSE StrLess(Tail(a), Tail(b))

-----------------------------------------------------------------------------
(* datetime.strptime / strftime as the code calls them.                    *)

\* datetime.strptime(s, "%I:%M %p"): the hour is 1[0-2]|0[1-9]|[1-9], the
\* minute [0-5]\d|\d, the blank of the format is \s+, %p is am|pm in any
\* case, and the whole string must be consumed.  ok = FALSE is ValueError.
HourLen(s) ==
  IF /\ Len(s) >= 3 /\ s[3] = ":"
     /\ \/ s[1] = "1" /\ s[2] \in {"0", "1", "2"}
        \/ s[1] = "0" /\ IsDigit(s[2]) /\ s[2] # "0"
  THEN 2
  ELSE IF Len(s) >= 2 /\ s[2] = ":" /\ IsDigit(s[1]) /\ s[1] # "0" THEN 1
  ELSE 0

MinuteLen(r) ==
  IF /\ Len(r) >= 3 /\ r[1] \in {"0", "1", "2", "3", "4", "5"}
     /\ IsDigit(r[2]) /\ IsSpace(r[3])
  THEN 2
  ELSE IF Len(r) >= 2 /\ IsDigit(r[1]) /\ IsSpace(r[2]) THEN 1
  ELSE 0

RECURSIVE DigitsVal(_)
DigitsVal(ds) ==
  IF ds = <<>> THEN 0
  ELSE 10 * DigitsVal(SubSeq(ds, 1, Len(ds) - 1)) + DigitVal(ds[Len(ds)])

TimeFail == [ok |-> FALSE, hour |-> 0, minute |-> 0]

strptime_IMp(s) ==
  LET hl == HourLen(s)
      r  == SubSeq(s, hl + 2, Len(s))
      ml == MinuteLen(r)
      p  == str_lower(str_lstrip(SubSeq(r, ml + 1, Len(r))))
      I  == DigitsVal(SubSeq(s, 1, hl))
      M  == DigitsVal(SubSeq(r, 1, ml))
  IN  IF hl = 0 \/ ml = 0 THEN TimeFail
      ELSE IF p = <<"a", "m">> THEN
        [ok |-> TRUE, hour |-> IF I = 12 THEN 0 ELSE I, minute |-> M]
      ELSE IF p = <<"p", "m">> THEN
        [ok |-> TRUE, hour |-> IF I = 12 THEN 12 ELSE I + 12, minute |-> M]
      ELSE TimeFail

TwoDigits(n) == <<Digits[(n \div 10) + 1], Digits[(n % 10) + 1]>>

\* d.strftime("%I:%M %p")
strftime_IMp(d) ==
  LET I == IF d.hour % 12 = 0 THEN 12 ELSE d.hour % 12
  IN  TwoDigits(I) \o <<":">> \o TwoDigits(d.minute) \o <<" ">>
        \o (IF d.hour < 12 THEN <<"A", "M">> ELSE <<"P", "M">>)

\* A slip: 12 o'clock is left as the hour 12 of its half of the day.
TimeKeyTwelveLast(t) ==
  LET d == strptime_IMp(t)
  IN  60 * (IF d.hour % 12 = 0 THEN d.hour + 12 ELSE d.hour) + d.minute

\* The key of the sort of the Other events: the parsed time of day.
TimeKey(t) == LET d == strptime_IMp(t) IN 60 * d.hour + d.minute

MonthNames ==
  << <<"j", "a", "n">>, <<"f", "e", "b">>, <<"m", "a", "r">>, <<"a", "p", "r">>,
     <<"m", "a", "y">>, <<"j", "u", "n">>, <<"j", "u", "l">>, <<"a", "u", "g">>,
     <<"s", "e", "p">>, <<"o", "c", "t">>, <<"n", "o", "v">>, <<"d", "e", "c">> >>

IsLeap(y) == (y % 4 = 0 /\ y % 100 # 0) \/ y % 400 = 0

DaysInMonth(y, m) ==
  IF m = 2 THEN (IF IsLeap(y) THEN 29 ELSE 28)
  ELSE IF m \in {4, 6, 9, 11} THEN 30 ELSE 31

DateFail == [ok |-> FALSE, ord |-> 0]

\* datetime.strptime(x, "%b %d, %Y") of a date string, given by its tokens:
\* %b is a month abbreviation in any case, %d is 3[01]|[12]\d|0[1-9]|[1-9],
\* %Y four digits, and the day must exist in the month.  ord orders the
\* parsed dates as datetime orders them.
strptime_bdY(x) ==
  LET mon == str_lower(x.mon)
      d   == DigitsVal(x.day)
      y   == DigitsVal(x.year)
  IN  IF \A i \in 1..12 : MonthNames[i] # mon THEN DateFail
      ELSE LET m == IndexIn(mon, MonthNames)
           IN  IF d < 1 \/ y < 1 \/ d > DaysInMonth(y, m) THEN DateFail
               ELSE [ok |-> TRUE, ord |-> (y * 12 + (m - 1)) * 31 + (d - 1)]

\* The text of a date string: "Mar 1, 2025".
DateText(x) == x.mon \o <<" ">> \o x.day \o <<",", " ">> \o x.year

\* x.split(",")[0]: the date string without its year, "Mar 1".
SplitComma0(x) == x.mon \o <<" ">> \o x.day

-----------------------------------------------------------------------------
(* parse_standard_rows                                                     *)

\* One line of self.data.splitlines() after line.strip(), as the tokens the
\* pattern looks at: "<mon> <day>, <year> - <hh>:<mm><sp blanks><ap>: <event>".
\* year = <<>> is a line without ", <year>", dash / colon tell whether the
\* " - " and the ":" before the event are there.
MkLine(mon, day, year, dash, hh, mm, sp, ap, colon, event) ==
  [mon |-> mon, day |-> day, year |-> year, dash |-> dash, hh |-> hh,
   mm |-> mm, sp |-> sp, ap |-> ap, colon |-> colon, event |-> event]

BlankLine == MkLine(<<>>, <<>>, <<>>, FALSE, <<>>, <<>>, 0, <<>>, FALSE, <<>>)

\* `if not line: continue`
LineIsEmpty(line) == line = BlankLine

AllOf(s, P(_)) == \A i \in 1..Len(s) : P(s[i])

\* pattern.match(line):
\*   ^(?P<date>[A-Za-z]{3}\s+\d{1,2},\s+\d{4})\s*-\s*
\*    (?P<time>\d{1,2}:\d{2}\s*(?:AM|PM)):\s*(?P<event>.+)$
pattern_match(line) ==
  /\ Len(line.mon) = 3 /\ AllOf(line.mon, IsAlpha)
  /\ Len(line.day) \in 1..2 /\ AllOf(line.day, IsDigit)
  /\ Len(line.year) = 4 /\ AllOf(line.year, IsDigit)
  /\ line.dash
  /\ Len(line.hh) \in 1..2 /\ AllOf(line.hh, IsDigit)
  /\ Len(line.mm) = 2 /\ AllOf(line.mm, IsDigit)
  /\ line.ap \in {<<"A", "M">>, <<"P", "M">>}
  /\ line.colon
  /\ str_strip(line.event) # <<>>

\* match.group("date")
group_date(line) == [mon |-> line.mon, day |-> line.day, year |-> line.year]

\* match.group("time")
group_time(line) == line.hh \o <<":">> \o line.mm \o Spaces(line.sp) \o line.ap

\* match.group("event").strip()
group_event(line) == str_strip(line.event)

\* events_by_date is a dict in insertion order: a sequence of buckets.
HasDate(ebd, date) == \E i \in 1..Len(ebd) : ebd[i].date = date

\* self.events_by_date[date_str].append({...}), the bucket created if absent.
AppendEvent(ebd, date, event) ==
  IF HasDate(ebd, date)
  THEN [i \in 1..Len(ebd) |->
          IF ebd[i].date = date
          THEN [ebd[i] EXCEPT !.events = Append(@, event)]
          ELSE ebd[i]]
  ELSE Append(ebd, [date |-> date, events |-> <<event>>])

ParseLine(ebd, line) ==
  IF LineIsEmpty(line) THEN ebd
  ELSE IF pattern_match(line)
  THEN AppendEvent(ebd, group_date(line),
                   [time |-> group_time(line), description |-> group_event(line)])
  ELSE ebd

\* The loop of parse_standard_rows over the lines, from the buckets ebd.
RECURSIVE ParseLines(_, _)
ParseLines(ebd, lines) ==
  IF lines = <<>> THEN ebd
  ELSE ParseLines(ParseLine(ebd, Head(lines)), Tail(lines))

-----------------------------------------------------------------------------
(* compute_global_event_counts                                             *)

\* key = event["description"].strip().lower()
EventKey(event) == str_lower(str_strip(event.description))

\* All events in the order `for events in events_by_date.values(): for event
\* in events` visits them.
RECURSIVE AllEvents(_)
AllEvents(ebd) ==
  IF ebd = <<>> THEN <<>> ELSE Head(ebd).events \o AllEvents(Tail(ebd))

EmptyDict == [k \in {} |-> 0]

\* A slip: the count is set, not incremented.
CountUpReset(count, key) ==
  [k \in DOMAIN count \cup {key} |-> IF k = key THEN 1 ELSE count[k]]

\* self.global_event_count[key] = self.global_event_count.get(key, 0) + 1
CountUp(count, key) ==
  IF key \in DOMAIN count
  THEN [count EXCEPT ![key] = @ + 1]
  ELSE [k \in DOMAIN count \cup {key} |-> IF k = key THEN 1 ELSE count[k]]

\* A slip: the last occurrence wins.
RecordOriginalLast(original, key, desc) ==
  [k \in DOMAIN original \cup {key} |-> IF k = key THEN desc ELSE original[k]]

\* if key not in self.global_event_original: ...[key] = description.strip()
RecordOriginal(original, key, desc) ==
  IF key \in DOMAIN original THEN original
  ELSE [k \in DOMAIN original \cup {key} |-> IF k = key THEN desc ELSE original[k]]

RECURSIVE CountEvents(_, _)
CountEvents(g, events) ==
  IF events = <<>> THEN g
  ELSE LET e == Head(events)
           key == EventKey(e)
       IN  CountEvents([count |-> CountUp(g.count, key),
                        original |-> RecordOriginal(g.original, key,
                                                    str_strip(e.description))],
                       Tail(events))

compute_global_event_counts(ebd) ==
  CountEvents([count |-> EmptyDict, original |-> EmptyDict], AllEvents(ebd))

-----------------------------------------------------------------------------
(* analyze_events_by_day                                                   *)

\* The overall count from which an event has a column of its own (cnt >= 3).
RegularMin == 3

\* A slip: the threshold one too low.
IsRegularCountLow(cnt) == cnt >= RegularMin - 1

IsRegularCount(cnt) == cnt >= RegularMin

\* globally_regular = {key for key, cnt in global_event_count.items() if cnt >= 3}
globally_regular(count) == {key \in DOMAIN count : IsRegularCount(count[key])}

\* A stable sort by integer keys: element i goes behind every element with a
\* smaller key and every earlier element with the same key.
StableSort(s, keys) ==
  LET rank(i) == Cardinality({j \in 1..Len(s) :
                                keys[j] < keys[i] \/ (keys[j] = keys[i] /\ j < i)}) + 1
  IN  [p \in 1..Len(s) |-> s[CHOOSE i \in 1..Len(s) : rank(i) = p]]

\* other_events_raw.sort(key=lambda x: datetime.strptime(x[0], "%I:%M %p"))
RECURSIVE TimeKeys(_)
TimeKeys(s) == IF s = <<>> THEN <<>> ELSE <<TimeKey(Head(s)[1])>> \o TimeKeys(Tail(s))

sort_other_raw(s) == StableSort(s, TimeKeys(s))

\* d.strftime("%I:%M %p").lstrip("0")
non_zero_time(d) == lstrip_zero(strftime_IMp(d))

\* A slip: an event whose time does not parse is skipped.
ClassifyEventSkip(acc, event, regular, original) ==
  LET key == str_lower(str_strip(event.description))
      d   == strptime_IMp(event.time)
  IN  IF ~d.ok THEN acc
      ELSE IF key \in regular
      THEN [acc EXCEPT !.regular = CountUp(@, original[key])]
      ELSE [acc EXCEPT !.other_raw = Append(@, <<non_zero_time(d), event.description>>)]

\* A slip: a regular event is counted and listed among the other events too.
ClassifyEventBoth(acc, event, regular, original) ==
  LET key == str_lower(str_strip(event.description))
      d   == strptime_IMp(event.time)
  IN  IF ~d.ok THEN [acc EXCEPT !.ok = FALSE, !.arg = event.time]
      ELSE IF key \in regular
      THEN [acc EXCEPT !.regular = CountUp(@, original[key]),
                       !.other_raw = Append(@, <<non_zero_time(d), event.description>>)]
      ELSE [acc EXCEPT !.other_raw = Append(@, <<non_zero_time(d), event.description>>)]

\* The body of `for event in events` on the day's accumulators acc; ok = FALSE
\* is the ValueError of strptime, arg the time string it was given.
ClassifyEvent(acc, event, regular, original) ==
  LET key == EventKey(event)
      d   == strptime_IMp(event.time)
  IN  IF ~d.ok THEN [acc EXCEPT !.ok = FALSE, !.arg = event.time]
      ELSE IF key \in regular
      THEN [acc EXCEPT !.regular = CountUp(@, original[key])]
      ELSE [acc EXCEPT !.other_raw = Append(@, <<non_zero_time(d), event.description>>)]

RECURSIVE ClassifyEvents(_, _, _, _)
ClassifyEvents(acc, events, regular, original) ==
  IF events = <<>> \/ ~acc.ok THEN acc
  ELSE ClassifyEvents(ClassifyEvent(acc, Head(events), regular, original),
                      Tail(events), regular, original)

\* self.day_stats[date] = entry: a dict in insertion order, a present key
\* keeps its place.  An entry holds "regular", "other_raw" and "other"; a
\* key that the dict does not hold (other before formatting, other_raw after
\* the del) is kept as the default its readers .get(): [] and "".
DictSet(ds, date, entry) ==
  IF \E i \in 1..Len(ds) : ds[i].date = date
  THEN [i \in 1..Len(ds) |-> IF ds[i].date = date THEN entry ELSE ds[i]]
  ELSE Append(ds, entry)

\* The loop `for date, events in self.events_by_date.items()`, stopped by the
\* first ValueError; the days before it are already stored.
RECURSIVE AnalyzeDays(_, _, _, _)
AnalyzeDays(ds, ebd, regular, original) ==
  IF ebd = <<>> THEN [ok |-> TRUE, day_stats |-> ds, arg |-> <<>>]
  ELSE LET c == ClassifyEvents([ok |-> TRUE, arg |-> <<>>, regular |-> EmptyDict,
                                other_raw |-> <<>>],
                               Head(ebd).events, regular, original)
       IN  IF ~c.ok THEN [ok |-> FALSE, day_stats |-> ds, arg |-> c.arg]
           ELSE AnalyzeDays(
                  DictSet(ds, Head(ebd).date,
                          [date |-> Head(ebd).date, regular |-> c.regular,
                           other_raw |-> sort_other_raw(c.other_raw),
                           other |-> <<>>]),
                  Tail(ebd), regular, original)

-----------------------------------------------------------------------------
(* format_other_events                                                     *)

Max(S) == IF S = {} THEN 0 ELSE CHOOSE m \in S : \A n \in S : n <= m

\* global_max_width = max((len(t) for t in all_other_times), default=0)
global_max_width(ds) ==
  Max(UNION {{Len(ds[i].other_raw[j][1]) : j \in 1..Len(ds[i].other_raw)} :
               i \in 1..Len(ds)})

\* A slip: the width of the day, not of the dataset.
JustifyWidthOfDay(ds, i) ==
  Max({Len(ds[i].other_raw[j][1]) : j \in 1..Len(ds[i].other_raw)})

\* The width the lines of entry i are justified to.
JustifyWidth(ds, i) == global_max_width(ds)

\* f"{t.rjust(global_max_width)} - {desc}"
FormatLine(t, desc, width) == str_rjust(t, width) \o <<" ", "-", " ">> \o desc

\* "\n".join(lines)
RECURSIVE JoinLines(_)
JoinLines(lines) ==
  IF lines = <<>> THEN <<>>
  ELSE IF Len(lines) = 1 THEN lines[1]
  ELSE lines[1] \o <<"\n">> \o JoinLines(Tail(lines))

format_other_events(ds) ==
  [i \in 1..Len(ds) |->
     [ds[i] EXCEPT
        !.other = JoinLines([j \in 1..Len(ds[i].other_raw) |->
                               FormatLine(ds[i].other_raw[j][1], ds[i].other_raw[j][2],
                                          JustifyWidth(ds, i))]),
        !.other_raw = <<>>]]

-----------------------------------------------------------------------------
(* get_tables                                                              *)

\* How many of the last dates decide staleness (sorted_dates[-3:], >= 3).
LastDays == 3

DateOrd(date) == strptime_bdY(date).ord

\* sorted(self.day_stats.keys(), key=lambda x: datetime.strptime(x, "%b %d, %Y"))
RECURSIVE DateOrds(_)
DateOrds(dates) ==
  IF dates = <<>> THEN <<>> ELSE <<DateOrd(Head(dates))>> \o DateOrds(Tail(dates))

sorted_dates(dates) == StableSort(dates, DateOrds(dates))

\* sorted_dates[-3:] if len(sorted_dates) >= 3 else sorted_dates
last_three(sd) ==
  IF Len(sd) >= LastDays THEN SubSeq(sd, Len(sd) - LastDays + 1, Len(sd)) ELSE sd

\* {self.global_event_original[key] for key, cnt in ... if cnt >= 3}
globally_regular_headers(count, original) ==
  {original[key] : key \in globally_regular(count)}

\* sorted(a set of str): ascending by code point.
RECURSIVE sorted_strs(_)
sorted_strs(S) ==
  IF S = {} THEN <<>>
  ELSE LET m == CHOOSE a \in S : \A b \in S \ {a} : StrLess(a, b)
       IN  <<m>> \o sorted_strs(S \ {m})

\* self.day_stats.get(date, {}).get("regular", {}).get(event, 0)
DayCount(ds, date, event) ==
  IF \E i \in 1..Len(ds) : ds[i].date = date /\ event \in DOMAIN ds[i].regular
  THEN LET i == CHOOSE i \in 1..Len(ds) : ds[i].date = date
       IN  ds[i].regular[event]
  ELSE 0

\* self.day_stats.get(date, {}).get("other", "")
DayOther(ds, date) ==
  IF \E i \in 1..Len(ds) : ds[i].date = date
  THEN ds[CHOOSE i \in 1..Len(ds) : ds[i].date = date].other
  ELSE <<>>

\* A slip: stale as soon as one of the last days has none.
absent_in_some(ds, lt, event) ==
  \E i \in 1..Len(lt) : ~(DayCount(ds, lt[i], event) > 0)

\* absent_in_all after the loop over last_three.
absent_in_all(ds, lt, event) ==
  \A i \in 1..Len(lt) : ~(DayCount(ds, lt[i], event) > 0)

\* A slip: the flag is not looked at.
hiding_applies_whatever_flag(hide, lt) == Len(lt) >= LastDays

\* `if self.hide_stale_events and len(last_three) >= 3`
hiding_applies(hide, lt) == hide /\ Len(lt) >= LastDays

\* A slip: the count looked up under the label, not under its key.
hidden_total_by_label(count, original, event) ==
  IF event \in DOMAIN count THEN count[event] ELSE 0

\* hidden_events[event] = self.global_event_count.get(key, 0) for the key
\* whose original is the event.
hidden_total(count, original, event) ==
  LET key == CHOOSE k \in DOMAIN original : original[k] = event
  IN  IF key \in DOMAIN count THEN count[key] ELSE 0

SelectStr(s, P(_)) ==
  LET F[i \in 0..Len(s)] ==
        IF i = 0 THEN <<>>
        ELSE IF P(s[i]) THEN Append(F[i - 1], s[i]) ELSE F[i - 1]
  IN  F[Len(s)]

NoTables == [columns |-> <<>>, df_display |-> <<>>, df |-> <<>>, hidden_df |-> <<>>]

\* get_tables: ok = FALSE is an exception, of type err with argument arg.
\*  - sorted() raises ValueError on the first date string strptime rejects;
\*  - pd.DataFrame([]) has no columns, so df["Date"] raises KeyError('Date').
get_tables(ds, count, original, hide) ==
  LET dates == [i \in 1..Len(ds) |-> ds[i].date]
      bad   == {i \in 1..Len(dates) : ~strptime_bdY(dates[i]).ok}
  IN
  IF bad # {}
  THEN [ok |-> FALSE, err |-> "ValueError",
        arg |-> DateText(dates[CHOOSE i \in bad : \A j \in bad : i <= j]),
        tables |-> NoTables]
  ELSE
  LET sd      == sorted_dates(dates)
      lt      == last_three(sd)
      all     == sorted_strs(globally_regular_headers(count, original))
      hides   == hiding_applies(hide, lt)
      stale   == IF hides
                 THEN {e \in globally_regular_headers(count, original) :
                         absent_in_all(ds, lt, e)}
                 ELSE {}
      Stale(e) == e \in stale
      Fresh(e) == e \notin stale
      keep    == SelectStr(all, Fresh)
      gone    == SelectStr(all, Stale)
      hidden  == [i \in 1..Len(gone) |->
                    [Event |-> gone[i],
                     Total_Count |-> hidden_total(count, original, gone[i])]]
      df      == [i \in 1..Len(sd) |->
                    [Date |-> DateText(sd[i]),
                     counts |-> [e \in {keep[j] : j \in 1..Len(keep)} |->
                                   DayCount(ds, sd[i], e)],
                     Other |-> DayOther(ds, sd[i]), Date_dt |-> DateOrd(sd[i])]]
      display == [i \in 1..Len(sd) |->
                    [Date |-> SplitComma0(sd[i]), counts |-> df[i].counts,
                     Other |-> df[i].Other]]
  IN
  IF sd = <<>>
  THEN [ok |-> FALSE, err |-> "KeyError", arg |-> <<"D", "a", "t", "e">>,
        tables |-> NoTables]
  ELSE [ok |-> TRUE, err |-> "None", arg |-> <<>>,
        tables |-> [columns |-> keep, df_display |-> display, df |-> df,
                    hidden_df |-> hidden]]

-----------------------------------------------------------------------------
(* The analyzer: __init__, and run_analysis step by step.                  *)

NoError == [type |-> "None", arg |-> <<>>]

\* What the caller holds of an earlier run_analysis(): nothing yet.
NoOutcome == [pc |-> "none"]

\* How the run_analysis() that has just ended ended, with the global counts
\* it left in the analyzer.
Outcome ==
  [pc |-> pc, err |-> err, result |-> result, count |-> global_event_count]

\* A dict shared by all instances, as a class attribute would be.
init_events_by_date_shared(previous) == previous

\* self.events_by_date = {}: a new dict for each analyzer, whatever an
\* analyzer constructed before holds.
init_events_by_date(previous) == <<>>

\* __init__(data, hide_stale_events)
Constructed(inputs) ==
  /\ data \in inputs
  /\ hide_stale_events \in BOOLEAN
  /\ events_by_date = <<>>
  /\ day_stats = <<>>
  /\ global_event_count = EmptyDict
  /\ global_event_original = EmptyDict
  /\ pc = "constructed"
  /\ err = NoError
  /\ result = NoTables
  /\ calls = 1
  /\ earlier = NoOutcome

parse_standard_rows ==
  /\ pc = "constructed"
  /\ events_by_date' = ParseLines(events_by_date, data)
  /\ pc' = "parsed"
  /\ UNCHANGED <<data, hide_stale_events, day_stats, global_event_count,
                 global_event_original, err, result, calls, earlier>>

analyze_events_by_day ==
  /\ pc = "parsed"
  /\ \E g \in {compute_global_event_counts(events_by_date)} :
     \E a \in {AnalyzeDays(day_stats, events_by_date, globally_regular(g.count),
                            g.original)} :
         /\ global_event_count' = g.count
         /\ global_event_original' = g.original
         /\ day_stats' = a.day_stats
         /\ pc' = IF a.ok THEN "analyzed" ELSE "raised"
         /\ err' = IF a.ok THEN err ELSE [type |-> "ValueError", arg |-> a.arg]
  /\ UNCHANGED <<data, hide_stale_events, events_by_date, result, calls, earlier>>

format_other_events_step ==
  /\ pc = "analyzed"
  /\ day_stats' = format_other_events(day_stats)
  /\ pc' = "formatted"
  /\ UNCHANGED <<data, hide_stale_events, events_by_date, global_event_count,
                 global_event_original, err, result, calls, earlier>>

get_tables_step ==
  /\ pc = "formatted"
  /\ \E t \in {get_tables(day_stats, global_event_count, global_event_original,
                            hide_stale_events)} :
         /\ result' = t.tables
         /\ pc' = IF t.ok THEN "returned" ELSE "raised"
         /\ err' = IF t.ok THEN err ELSE [type |-> t.err, arg |-> t.arg]
  /\ UNCHANGED <<data, hide_stale_events, events_by_date, day_stats,
                 global_event_count, global_event_original, calls, earlier>>

Next ==
  \/ parse_standard_rows
  \/ analyze_events_by_day
  \/ format_other_events_step
  \/ get_tables_step

\* How many times run_analysis() is called on one analyzer.
MaxCalls == 2

\* run_analysis() is called once more on the same analyzer: no field is
\* reset, the caller keeps what the first call returned.
run_analysis_again ==
  /\ pc \in {"returned", "raised"}
  /\ calls < MaxCalls
  /\ earlier' = IF earlier = NoOutcome THEN Outcome ELSE earlier
  /\ calls' = calls + 1
  /\ pc' = "constructed"
  /\ err' = NoError
  /\ result' = NoTables
  /\ UNCHANGED <<data, hide_stale_events, events_by_date, day_stats,
                 global_event_count, global_event_original>>

NextAgain == Next \/ run_analysis_again

\* A second analyzer is constructed from the same text and the same flag, the
\* caller keeping what the first one returned: __init__ of the new object.
construct_again ==
  /\ pc \in {"returned", "raised"}
  /\ earlier = NoOutcome
  /\ earlier' = Outcome
  /\ events_by_date' = init_events_by_date(events_by_date)
  /\ day_stats' = <<>>
  /\ global_event_count' = EmptyDict
  /\ global_event_original' = EmptyDict
  /\ calls' = 1
  /\ pc' = "constructed"
  /\ err' = NoError
  /\ result' = NoTables
  /\ UNCHANGED <<data, hide_stale_events>>

NextTwice == Next \/ construct_again

-----------------------------------------------------------------------------
(* Input texts.                                                            *)

Mar == <<"M", "a", "r">>
Y2025 == <<"2", "0", "2", "5">>
AM == <<"A", "M">>
PM == <<"P", "M">>
Nap == <<"N", "a", "p">>
nap == <<"n", "a", "p">>
NAP == <<"N", "A", "P">>
Bath == <<"B", "a", "t", "h">>
feed == <<"f", "e", "e", "d">>

\* "Mar <day>, 2025 - <hh>:<mm> <ap>: <event>"
Row(day, hh, mm, ap, event) ==
  MkLine(Mar, day, Y2025, TRUE, hh, mm, 1, ap, TRUE, event)

SeqsUpTo(S, n) == UNION {[1..k -> S] : k \in 0..n}

\* Spec: well-formed rows among blank lines, lines the pattern rejects and
\* rows whose time or date strptime rejects.
MaxLines == 4

RowNap9 == Row(<<"1">>, <<"9">>, <<"0", "0">>, AM, Nap)
RowBath == Row(<<"2">>, <<"1", "0">>, <<"3", "0">>, PM, Bath)
\* "March 1 - 9:00 feed"
LineNoYear ==
  MkLine(<<"M", "a", "r", "c", "h">>, <<"1">>, <<>>, TRUE, <<"9">>, <<"0", "0">>,
         1, <<>>, FALSE, feed)
\* "Mar 1, 2025 - 9:00AM: Nap"
RowNoBlank == MkLine(Mar, <<"1">>, Y2025, TRUE, <<"9">>, <<"0", "0">>, 0, AM, TRUE, Nap)
\* "Mar 1, 2025 - 9:00  AM: Nap"
RowTwoBlanks == MkLine(Mar, <<"1">>, Y2025, TRUE, <<"9">>, <<"0", "0">>, 2, AM, TRUE, Nap)
\* "Mar 1, 2025 - 13:61 AM: Nap"
RowBadTime == Row(<<"1">>, <<"1", "3">>, <<"6", "1">>, AM, Nap)
\* "Xyz 1, 2025 - 9:00 AM: Nap"
RowBadMonth ==
  MkLine(<<"X", "y", "z">>, <<"1">>, Y2025, TRUE, <<"9">>, <<"0", "0">>, 1, AM, TRUE, Nap)

Lines == {RowNap9, RowBath, LineNoYear, BlankLine, RowNoBlank, RowTwoBlanks,
          RowBadTime, RowBadMonth}

Init == Constructed(SeqsUpTo(Lines, MaxLines))

Spec == Init /\ [][Next]_vars

\* SpecTable: logs of four days, written day by day: the rows of a day are
\* contiguous, its Nap rows before its feed rows; the days come in any order.
MaxTableLines == 6

TableDays == {<<"1">>, <<"2">>, <<"3">>, <<"1", "0">>}

TableLines == {Row(d, <<"9">>, <<"0", "0">>, AM, e) : d \in TableDays, e \in {Nap, feed}}

DayByDay(s, l) ==
  \/ s = <<>>
  \/ s[Len(s)].day = l.day /\ (s[Len(s)].event = Nap \/ l.event = feed)
  \/ \A i \in 1..Len(s) : s[i].day # l.day

RECURSIVE DayLogs(_)
DayLogs(n) ==
  IF n = 0 THEN {<<>>}
  ELSE LET shorter == DayLogs(n - 1)
       IN  shorter \cup
           {Append(p[1], p[2]) :
              p \in {q \in {s \in shorter : Len(s) = n - 1} \X TableLines :
                       DayByDay(q[1], q[2])}}

InitTable == Constructed(DayLogs(MaxTableLines))

SpecTable == InitTable /\ [][Next]_vars

\* SpecLabel: two days, one event in three spellings and a second event.
MaxLabelLines == 4

LabelLines ==
  {Row(d, <<"9">>, <<"0", "0">>, AM, e) : d \in {<<"1">>, <<"2">>},
                                           e \in {Nap, nap, NAP, feed}}

InitLabel == Constructed(SeqsUpTo(LabelLines, MaxLabelLines))

SpecLabel == InitLabel /\ [][Next]_vars

\* SpecTime: two days, two events, times whose normal forms are 7 and 8
\* characters long.
MaxTimeLines == 4

TimeLines ==
  {Row(d, t[1], t[2], t[3], e) :
     d \in {<<"1">>, <<"2">>},
     t \in {<<<<"0", "4">>, <<"1", "5">>, PM>>, <<<<"1", "2">>, <<"0", "0">>, AM>>},
     e \in {Nap, feed}}

InitTime == Constructed(SeqsUpTo(TimeLines, MaxTimeLines))

SpecTime == InitTime /\ [][Next]_vars

\* SpecOrder: one day with events at five times of the day, 12:30 AM,
\* 1:00 AM, 11:59 AM, 12:15 PM and 01:00 PM, and a row of another day.
MaxOrderLines == 3

OrderTimes ==
  { <<<<"1", "2">>, <<"3", "0">>, AM>>, <<<<"1">>, <<"0", "0">>, AM>>,
    <<<<"1", "1">>, <<"5", "9">>, AM>>, <<<<"1", "2">>, <<"1", "5">>, PM>>,
    <<<<"0", "1">>, <<"0", "0">>, PM>> }

OrderLines ==
  {Row(<<"1">>, t[1], t[2], t[3], e) : t \in OrderTimes, e \in {Bath, feed}}
    \cup {Row(<<"2">>, <<"1">>, <<"0", "0">>, AM, Bath)}

InitOrder == Constructed(SeqsUpTo(OrderLines, MaxOrderLines))

SpecOrder == InitOrder /\ [][Next]_vars

\* SpecDays: three calendar days, the first written "Mar 1" and "Mar 01".
MaxDayLines == 4

DayLines ==
  {Row(d, <<"9">>, <<"0", "0">>, AM, e) :
     d \in {<<"1">>, <<"0", "1">>, <<"2">>, <<"3">>}, e \in {Nap, feed}}

InitDays == Constructed(SeqsUpTo(DayLines, MaxDayLines))

SpecDays == InitDays /\ [][Next]_vars

\* SpecTwice: the texts of Spec, each analysed by two analyzers in turn.
SpecTwice == Init /\ [][NextTwice]_vars

\* SpecAgain: the texts of Spec, run_analysis() called up to MaxCalls times
\* on the one analyzer.
SpecAgain == Init /\ [][NextAgain]_vars

\* run_analysis() of a freshly constructed analyzer, as one function of the
\* text and the flag: how it ends, with which exception, returning what.
run_analysis(text, hide) ==
  LET ebd == ParseLines(<<>>, text)
      g   == compute_global_event_counts(ebd)
      a   == AnalyzeDays(<<>>, ebd, globally_regular(g.count), g.original)
      t   == get_tables(format_other_events(a.day_stats), g.count, g.original, hide)
  IN  IF ~a.ok
      THEN [pc |-> "raised", err |-> [type |-> "ValueError", arg |-> a.arg],
            result |-> NoTables]
      ELSE IF ~t.ok
      THEN [pc |-> "raised", err |-> [type |-> t.err, arg |-> t.arg],
            result |-> NoTables]
      ELSE [pc |-> "returned", err |-> NoError, result |-> t.tables]

-----------------------------------------------------------------------------
(* What the claims speak of, read off the parsed events and the tables.    *)

\* The key of a description: trimmed and lowercased.
KeyOf(desc) == str_lower(str_strip(desc))

RECURSIVE KeysOfEvents(_)
KeysOfEvents(events) ==
  IF events = <<>> THEN <<>>
  ELSE <<KeyOf(Head(events).description)>> \o KeysOfEvents(Tail(events))

\* The keys of the events, bucket by bucket.
RECURSIVE KeyTable(_)
KeyTable(ebd) ==
  IF ebd = <<>> THEN <<>> ELSE <<KeysOfEvents(Head(ebd).events)>> \o KeyTable(Tail(ebd))

Elems(s) == {s[i] : i \in 1..Len(s)}

\* How many of the keys are the key.
CountOf(keys, key) == Cardinality({i \in 1..Len(keys) : keys[i] = key})

RECURSIVE TotalOf(_, _)
TotalOf(kt, key) ==
  IF kt = <<>> THEN 0 ELSE CountOf(Head(kt), key) + TotalOf(Tail(kt), key)

KeysIn(kt) == UNION {Elems(kt[i]) : i \in 1..Len(kt)}

RegularIn(kt) == {k \in KeysIn(kt) : TotalOf(kt, k) >= 3}

\* How many events of a bucket have the key.
Occurrences(events, key) == CountOf(KeysOfEvents(events), key)

\* The overall number of parsed events with the key.
Total(key) == TotalOf(KeyTable(events_by_date), key)

ParsedKeys == KeysIn(KeyTable(events_by_date))

RegularKeys == RegularIn(KeyTable(events_by_date))

\* The buckets of the three chronologically last dates, from the buckets'
\* calendar dates.
LatestOf(ords) ==
  {i \in 1..Len(ords) : Cardinality({j \in 1..Len(ords) : ords[j] > ords[i]}) < 3}

RECURSIVE BucketOrds(_)
BucketOrds(ebd) ==
  IF ebd = <<>> THEN <<>>
  ELSE <<strptime_bdY(Head(ebd).date).ord>> \o BucketOrds(Tail(ebd))

LatestThree == LatestOf(BucketOrds(events_by_date))

AbsentOn(kt, latest, key) == \A i \in latest : CountOf(kt[i], key) = 0

AbsentLately(key) == AbsentOn(KeyTable(events_by_date), LatestThree, key)

HidingApplied == hide_stale_events /\ Len(events_by_date) >= 3

\* The text of a cell split at its newlines.
RECURSIVE SplitLines(_)
SplitLines(text) ==
  IF text = <<>> THEN <<>>
  ELSE IF \E i \in 1..Len(text) : text[i] = "\n"
  THEN LET k == CHOOSE i \in 1..Len(text) :
                  text[i] = "\n" /\ \A j \in 1..(i - 1) : text[j] # "\n"
       IN  <<SubSeq(text, 1, k - 1)>> \o SplitLines(SubSeq(text, k + 1, Len(text)))
  ELSE <<text>>

\* Where the " - " between the time and the description of a line starts.
IsSepAt(line, i) ==
  i + 2 <= Len(line) /\ line[i] = " " /\ line[i + 1] = "-" /\ line[i + 2] = " "

SepAt(line) ==
  CHOOSE i \in 1..Len(line) :
    IsSepAt(line, i) /\ \A j \in 1..(i - 1) : ~IsSepAt(line, j)

TimePart(line) == SubSeq(line, 1, SepAt(line) - 1)
DescPart(line) == SubSeq(line, SepAt(line) + 3, Len(line))

RECURSIVE KeysOfLines(_)
KeysOfLines(lines) ==
  IF lines = <<>> THEN <<>>
  ELSE <<KeyOf(DescPart(Head(lines)))>> \o KeysOfLines(Tail(lines))

\* The row of the full table for a bucket's date.
RowOf(date) ==
  result.df[CHOOSE r \in 1..Len(result.df) : result.df[r].Date = DateText(date)]

\* The keys of the lines of the Other cell of a row.
OtherKeys(row) == KeysOfLines(SplitLines(row.Other))

\* The count a row shows for a key: 0 without a column of its label.
CellIn(row, key) ==
  IF key \in DOMAIN global_event_original
     /\ global_event_original[key] \in DOMAIN row.counts
  THEN row.counts[global_event_original[key]]
  ELSE 0

HiddenLabels == {result.hidden_df[i].Event : i \in 1..Len(result.hidden_df)}

-----------------------------------------------------------------------------
\* C1: with hide_stale_events and at least 3 dates parsed, the column of a
\* regular label (overall count >= 3) is removed from the main table if and
\* only if its count is 0 on each of the three chronologically last dates.
C1_StaleIffAbsentOnLastThree ==
  (pc = "returned" /\ HidingApplied) =>
    LET kt     == KeyTable(events_by_date)
        latest == LatestThree
        shown  == Elems(result.columns)
    IN  \A key \in RegularIn(kt) :
          (global_event_original[key] \notin shown) <=> AbsentOn(kt, latest, key)

\* A regular label with events on an earlier date only has been removed, and
\* another one with events on the last three dates has been kept.
C1_Witness ==
  /\ pc = "returned" /\ HidingApplied
  /\ \E k1, k2 \in RegularKeys :
       /\ global_event_original[k1] \notin Elems(result.columns)
       /\ global_event_original[k2] \in Elems(result.columns)

\* C2: no column for a key whose overall count is below 3, every occurrence
\* of such an event is a line of the Other cell of its date, and without
\* hiding the columns are exactly the labels of the keys with count >= 3, in
\* ascending order.
C2_ColumnsAreTheRegularLabels ==
  pc = "returned" =>
    LET kt      == KeyTable(events_by_date)
        regular == RegularIn(kt)
        rare    == KeysIn(kt) \ regular
    IN  /\ \A c \in Elems(result.columns) : TotalOf(kt, KeyOf(c)) >= 3
        /\ \A i \in 1..Len(kt) :
             LET other == OtherKeys(RowOf(events_by_date[i].date))
             IN  \A key \in rare : CountOf(other, key) = CountOf(kt[i], key)
        /\ ~HidingApplied =>
             /\ Elems(result.columns) = {global_event_original[k] : k \in regular}
             /\ \A i, j \in 1..Len(result.columns) :
                  i < j => StrLess(result.columns[i], result.columns[j])

\* Without hiding: two columns, the capitalised label before the lowercase one.
C2_WitnessTwoColumns ==
  /\ pc = "returned" /\ ~HidingApplied
  /\ Len(result.columns) = 2

\* A key below 3 by the side of a regular column: its event is an Other line.
C2_Witness ==
  /\ pc = "returned"
  /\ Len(result.columns) = 1
  /\ \E i \in 1..Len(events_by_date) : \E key \in ParsedKeys \ RegularKeys :
       CountOf(OtherKeys(RowOf(events_by_date[i].date)), key) > 0

\* n events of a key are in exactly one place of a row: all in its cell c, or
\* all among the keys of the lines of its Other cell.
InOnePlace(n, c, other, key) ==
  LET o == CountOf(other, key)
  IN  (c = n /\ o = 0) \/ (c = 0 /\ o = n)

\* C3 as stated: every parsed event is +1 in a regular column cell of its
\* date's row or one line of that row's Other text, never both, never
\* neither, for both values of hide_stale_events.
C3_AsStated ==
  pc = "returned" =>
    LET kt == KeyTable(events_by_date)
    IN  \A i \in 1..Len(kt) :
          LET row   == RowOf(events_by_date[i].date)
              other == OtherKeys(row)
          IN  \A key \in KeysIn(kt) :
                InOnePlace(CountOf(kt[i], key), CellIn(row, key), other, key)

\* C3 amended: that holds of every event whose column the staleness filter
\* has not removed; the events of a removed column are in no cell and in no
\* Other text of the main table.
C3_OnePlaceUnlessHidden ==
  pc = "returned" =>
    LET kt == KeyTable(events_by_date)
        hidden == HiddenLabels
    IN  \A i \in 1..Len(kt) :
          LET row   == RowOf(events_by_date[i].date)
              other == OtherKeys(row)
          IN  \A key \in KeysIn(kt) :
                IF global_event_original[key] \in hidden
                THEN CellIn(row, key) = 0 /\ CountOf(other, key) = 0
                ELSE InOnePlace(CountOf(kt[i], key), CellIn(row, key), other, key)

\* A column has been removed while its key has events, another is shown.
C3_Witness ==
  /\ pc = "returned"
  /\ \E i, j \in 1..Len(events_by_date) : \E k1, k2 \in ParsedKeys :
       /\ global_event_original[k1] \in HiddenLabels
       /\ Occurrences(events_by_date[i].events, k1) > 0
       /\ CellIn(RowOf(events_by_date[j].date), k2) > 0

\* C4: after compute_global_event_counts, global_event_count holds exactly
\* the keys that occur, each with the sum over the date buckets of its
\* occurrences in the bucket, whatever hide_stale_events is.
C4_GlobalCountIsSumOverDates ==
  pc \notin {"constructed", "parsed"} =>
    /\ DOMAIN global_event_count = ParsedKeys
    /\ \A key \in ParsedKeys : global_event_count[key] = Total(key)

\* A key counted over two buckets and two spellings.
C4_Witness ==
  /\ pc = "analyzed"
  /\ \E key \in ParsedKeys :
       /\ global_event_count[key] >= 3
       /\ \E i, j \in 1..Len(events_by_date) :
            /\ i # j
            /\ Occurrences(events_by_date[i].events, key) > 0
            /\ Occurrences(events_by_date[j].events, key) > 0
       /\ \E e1, e2 \in Elems(AllEvents(events_by_date)) :
            /\ KeyOf(e1.description) = key /\ KeyOf(e2.description) = key
            /\ e1.description # e2.description

\* The first bucket, in insertion order, with an event of the key, and the
\* first such event in it.
FirstBucket(key) ==
  CHOOSE i \in 1..Len(events_by_date) :
    /\ Occurrences(events_by_date[i].events, key) > 0
    /\ \A j \in 1..(i - 1) : Occurrences(events_by_date[j].events, key) = 0

FirstInBucket(events, key) ==
  CHOOSE i \in 1..Len(events) :
    /\ KeyOf(events[i].description) = key
    /\ \A j \in 1..(i - 1) : KeyOf(events[j].description) # key

FirstSpelling(key) ==
  LET events == events_by_date[FirstBucket(key)].events
  IN  str_strip(events[FirstInBucket(events, key)].description)

\* C5: the canonical label of a key is the trimmed description, in its own
\* case, of the key's first occurrence in date-insertion order and then in
\* the order within the date; later occurrences do not change it.
C5_LabelIsFirstOccurrence ==
  pc \notin {"constructed", "parsed"} =>
    /\ DOMAIN global_event_original = ParsedKeys
    /\ \A key \in ParsedKeys : global_event_original[key] = FirstSpelling(key)

\* The rows of the text that matched, in the order of the text.
RowsOfText == SelectSeq(data, pattern_match)

\* A key with several spellings whose label is not the spelling of its first
\* line in the text: the first bucket, not the first line, decides.
C5_Witness ==
  /\ pc = "analyzed"
  /\ \E key \in ParsedKeys :
       LET first == CHOOSE i \in 1..Len(RowsOfText) :
                      /\ KeyOf(RowsOfText[i].event) = key
                      /\ \A j \in 1..(i - 1) : KeyOf(RowsOfText[j].event) # key
       IN  global_event_original[key] # str_strip(RowsOfText[first].event)

\* The normalized time string of an event.
NormalTime(event) == lstrip_zero(strftime_IMp(strptime_IMp(event.time)))

\* The width the time parts of all lines of all Other cells have.
TimePartsHaveWidth(w) ==
  /\ \A i \in 1..Len(day_stats) :
       \A line \in Elems(SplitLines(day_stats[i].other)) : Len(TimePart(line)) = w
  /\ pc = "returned" =>
       \A r \in 1..Len(result.df) :
         \A line \in Elems(SplitLines(result.df[r].Other)) : Len(TimePart(line)) = w

\* C6 as stated: the width of the time part of every line of every Other
\* cell is the greatest length of the normalized time strings of all parsed
\* events, regular and other alike.
C6_AsStated ==
  pc \in {"formatted", "returned"} =>
    TimePartsHaveWidth(Max({Len(NormalTime(e)) : e \in Elems(AllEvents(events_by_date))}))

\* C6 amended: it is the greatest length of the normalized time strings of
\* the Other events (overall count below 3) of all dates; the times of
\* regular events do not count.
C6_WidthIsMaxOverOtherEvents ==
  pc \in {"formatted", "returned"} =>
    TimePartsHaveWidth(
      Max({Len(NormalTime(e)) :
             e \in {x \in Elems(AllEvents(events_by_date)) :
                      Total(KeyOf(x.description)) < 3}}))

\* A day whose only Other time is 7 long is padded to the 8 of another day.
C6_Witness ==
  /\ pc = "formatted"
  /\ \E i, j \in 1..Len(day_stats) :
       /\ i # j
       /\ \E line \in Elems(SplitLines(day_stats[i].other)) :
            Head(line) = " " /\ Len(TimePart(line)) = 8
       /\ \A line \in Elems(SplitLines(day_stats[i].other)) : Head(line) = " "
       /\ \E line \in Elems(SplitLines(day_stats[j].other)) : Head(line) = "1"

\* C7: the hidden-events summary has exactly one entry for each column the
\* staleness filter removed, the label with the key's overall count, and it
\* is empty when hiding is off, fewer than 3 dates exist or no regular column
\* is zero on all of the last three dates.
C7_HiddenSummary ==
  pc = "returned" =>
    LET kt      == KeyTable(events_by_date)
        regular == RegularIn(kt)
        latest  == LatestThree
        hidden  == HiddenLabels
    IN  /\ hidden = {global_event_original[k] : k \in regular} \ Elems(result.columns)
        /\ Len(result.hidden_df) = Cardinality(hidden)
        /\ \A i \in 1..Len(result.hidden_df) :
             result.hidden_df[i].Total_Count
               = TotalOf(kt, KeyOf(result.hidden_df[i].Event))
        /\ (~hide_stale_events \/ Len(events_by_date) < 3
              \/ \A k \in regular : ~AbsentOn(kt, latest, k))
             => result.hidden_df = <<>>

\* A removed column in the summary, with a label that is not its key.
C7_Witness ==
  /\ pc = "returned"
  /\ \E i \in 1..Len(result.hidden_df) :
       /\ result.hidden_df[i].Total_Count >= 3
       /\ result.hidden_df[i].Event # KeyOf(result.hidden_df[i].Event)

\* The line grammar as the specification words it: a 3-letter month, a 1-2
\* digit day, a 4-digit year, h:mm, exactly one blank, AM or PM, a colon and
\* a description.
ConformsToGrammar(line) ==
  /\ Len(line.mon) = 3 /\ AllOf(line.mon, IsAlpha)
  /\ Len(line.day) \in 1..2 /\ AllOf(line.day, IsDigit)
  /\ Len(line.year) = 4 /\ AllOf(line.year, IsDigit)
  /\ line.dash
  /\ Len(line.hh) \in 1..2 /\ AllOf(line.hh, IsDigit)
  /\ Len(line.mm) = 2 /\ AllOf(line.mm, IsDigit)
  /\ line.sp = 1
  /\ line.ap \in {AM, PM}
  /\ line.colon
  /\ str_strip(line.event) # <<>>

\* C8: a non-blank line that does not conform to the line grammar is dropped
\* silently: run_analysis ends as it ends on the text without that line,
\* with the same tables and no error of the line's making.
C8_NonConformingLinesAreDropped ==
  pc \in {"returned", "raised"} =>
    [pc |-> pc, err |-> err, result |-> result]
      = run_analysis(SelectSeq(data, ConformsToGrammar), hide_stale_events)

\* The hour and the minute a line writes.
WrittenHour(line) == DigitsVal(line.hh)
WrittenMinute(line) == DigitsVal(line.mm)

\* A line of the grammar whose time is no 12-hour time.
HasNoClockTime(line) ==
  /\ ConformsToGrammar(line)
  /\ (WrittenHour(line) \notin 1..12 \/ WrittenMinute(line) \notin 0..59)

\* The text of a line.
LineText(line) ==
  line.mon \o <<" ">> \o line.day
    \o (IF line.year = <<>> THEN <<>> ELSE <<",", " ">> \o line.year)
    \o (IF line.dash THEN <<" ", "-", " ">> ELSE <<" ">>)
    \o line.hh \o <<":">> \o line.mm \o Spaces(line.sp) \o line.ap
    \o (IF line.colon THEN <<":", " ">> ELSE <<" ">>) \o line.event

BadClockLines == {i \in 1..Len(data) : HasNoClockTime(data[i])}

\* How many events global_event_count has counted.
RECURSIVE SumOver(_, _)
SumOver(f, S) ==
  IF S = {} THEN 0
  ELSE LET k == CHOOSE k \in S : TRUE IN f[k] + SumOver(f, S \ {k})

CountedEvents == SumOver(global_event_count, DOMAIN global_event_count)

\* C9 as stated: a line of the grammar whose time is no 12-hour time makes
\* run_analysis abort with a MalformedTimeValue error that identifies the
\* line; no tables are returned, and the line is not counted.
C9_AsStated ==
  (BadClockLines # {} /\ pc \notin {"constructed", "parsed"}) =>
    /\ pc = "raised"
    /\ err.type = "MalformedTimeValue"
    /\ err.arg \in {LineText(data[i]) : i \in BadClockLines}
    /\ result = NoTables
    /\ CountedEvents
         = Cardinality({i \in 1..Len(data) :
                          pattern_match(data[i]) /\ i \notin BadClockLines})

\* The time string of the first event, in the order of the buckets and then
\* within the bucket, that strptime rejects.
FirstRejectedTime ==
  LET all == AllEvents(events_by_date)
      k   == CHOOSE i \in 1..Len(all) :
               /\ ~strptime_IMp(all[i].time).ok
               /\ \A j \in 1..(i - 1) : strptime_IMp(all[j].time).ok
  IN  all[k].time

\* C9 amended: such a line makes run_analysis abort with the ValueError of
\* datetime.strptime, which names the time string of the first event
\* strptime rejects and not the line; no tables are returned.  The line has
\* then been counted in global_event_count.
C9_BadTimeRaisesValueError ==
  (BadClockLines # {} /\ pc \notin {"constructed", "parsed"}) =>
    /\ pc = "raised"
    /\ err = [type |-> "ValueError", arg |-> FirstRejectedTime]
    /\ result = NoTables
    /\ CountedEvents = Cardinality({i \in 1..Len(data) : pattern_match(data[i])})

\* A row with 13:61 behind a well-formed row has stopped the analysis.
C9_Witness ==
  /\ pc = "raised"
  /\ BadClockLines # {}
  /\ Len(data) >= 2 /\ ~HasNoClockTime(data[1]) /\ pattern_match(data[1])
  /\ err.arg = <<"1", "3", ":", "6", "1", " ", "A", "M">>

\* No line of the text is a row: each is blank or rejected, by the grammar
\* as the specification words it and by the pattern of the code alike.
NoRowInText ==
  \A i \in 1..Len(data) : ~ConformsToGrammar(data[i]) /\ ~pattern_match(data[i])

\* C10: on a text that is empty, blank or without a line of the grammar,
\* run_analysis raises nothing and yields no dates and no events: a main
\* table without rows and an empty hidden-events summary.
C10_EmptyInputGivesEmptyTables ==
  NoRowInText =>
    /\ pc # "raised"
    /\ events_by_date = <<>>
    /\ pc = "returned" => (result.df = <<>> /\ result.hidden_df = <<>>)

-----------------------------------------------------------------------------
C11_WitnessRaised ==
  /\ earlier # NoOutcome /\ pc = "raised"
  /\ err.type = "ValueError"

\* C12: every later call of run_analysis() on the same analyzer returns the
\* tables and leaves the global counts of the first call.
C12_LaterCallsReturnTheSame ==
  (earlier # NoOutcome /\ pc = "returned") =>
    /\ earlier.pc = "returned"
    /\ result = earlier.result
    /\ global_event_count = earlier.count

\* What a later call does return: each row of the text is in its bucket once
\* per call so far, so the counts are those of the first call times the
\* number of calls.
C12_CountsGrowWithCalls ==
  (earlier # NoOutcome /\ pc = "returned") =>
    /\ DOMAIN global_event_count = DOMAIN earlier.count
    /\ \A key \in DOMAIN global_event_count :
         global_event_count[key] = calls * earlier.count[key]

C12_Witness ==
  /\ earlier # NoOutcome /\ pc = "returned"
  /\ calls = 2
  /\ result.columns # earlier.result.columns

-----------------------------------------------------------------------------
\* The time of day a row writes, in minutes after midnight: 12 AM is hour 0,
\* 12 PM hour 12.
DayMinutes(line) ==
  60 * (WrittenHour(line) % 12) + WrittenMinute(line)
    + (IF line.ap = PM THEN 720 ELSE 0)

\* The line of an Other cell for a row of the text: its time, without the
\* zero before a one-digit hour, behind the padding, and its description.
IsLineOf(other_line, line) ==
  /\ str_lstrip(TimePart(other_line))
       = lstrip_zero(line.hh) \o <<":">> \o line.mm \o <<" ">> \o line.ap
  /\ DescPart(other_line) = str_strip(line.event)

\* The rows of the text with this date string whose events are Other events,
\* in the order of the text.
OtherRowsOf(date) ==
  LET Here(l) == /\ pattern_match(l)
                 /\ group_date(l) = date
                 /\ Total(KeyOf(l.event)) < 3
  IN  SelectSeq(data, Here)

\* C13: the lines of the Other cell of a date are its Other events by time of
\* day ascending, 12:xx AM first and 12:xx PM between 11:59 AM and 1:00 PM,
\* and events at the same time are in the order of their rows in the text.
C13_OtherByTimeOfDayStable ==
  pc = "returned" =>
    \A i \in 1..Len(events_by_date) :
      LET src   == OtherRowsOf(events_by_date[i].date)
          lines == SplitLines(RowOf(events_by_date[i].date).Other)
          k     == Len(src)
      IN  /\ Len(lines) = k
          /\ \E pos \in [1..k -> 1..k] :
               /\ \A m \in 1..k : IsLineOf(lines[pos[m]], src[m])
               /\ \A m, n \in 1..k :
                    m < n => IF DayMinutes(src[m]) <= DayMinutes(src[n])
                             THEN pos[m] < pos[n]
                             ELSE pos[m] > pos[n]

\* A date of which a later row is earlier in the day than a row before it,
\* two rows of different events are at the same time, and a row is at 12:xx.
C13_Witness ==
  /\ pc = "returned"
  /\ \E i \in 1..Len(events_by_date) :
       LET src == OtherRowsOf(events_by_date[i].date)
       IN  \E m, n, q \in 1..Len(src) :
             /\ m < n /\ n < q
             /\ DayMinutes(src[m]) > DayMinutes(src[n])
             /\ DayMinutes(src[n]) = DayMinutes(src[q])
             /\ src[n].event # src[q].event
             /\ WrittenHour(src[n]) = 12

-----------------------------------------------------------------------------
\* The calendar days with a parsed event: the days the date strings of the
\* rows of the text denote.
CalendarDays == {DateOrd(group_date(RowsOfText[i])) : i \in 1..Len(RowsOfText)}

\* C14: the main table has one row per calendar day with a parsed event, in
\* strictly ascending order of the days whatever the order of the text; rows
\* of the text that denote the same day, as "Mar 1" and "Mar 01" do, are in
\* one bucket and one row and count as one date where the staleness filter
\* asks for 3 dates.
C14_OneRowPerCalendarDay ==
  pc = "returned" =>
    /\ {result.df[r].Date_dt : r \in 1..Len(result.df)} = CalendarDays
    /\ \A r \in 1..(Len(result.df) - 1) :
         result.df[r].Date_dt < result.df[r + 1].Date_dt
    /\ Len(result.df) = Len(result.df_display)
    /\ Len(events_by_date) = Cardinality(CalendarDays)
    /\ result.hidden_df # <<>> => Cardinality(CalendarDays) >= 3

\* What the table does have: a row for each date string of the text, the
\* rows in ascending order of their days, rows of the same day side by side.
C14_OneRowPerDateString ==
  pc = "returned" =>
    /\ {result.df[r].Date_dt : r \in 1..Len(result.df)} = CalendarDays
    /\ \A r \in 1..(Len(result.df) - 1) :
         result.df[r].Date_dt <= result.df[r + 1].Date_dt
    /\ Len(result.df) = Len(events_by_date)
    /\ \A i \in 1..Len(events_by_date) :
         \E r \in 1..Len(result.df) : result.df[r].Date = DateText(events_by_date[i].date)
    /\ Len(result.df)
         = Cardinality({group_date(RowsOfText[i]) : i \in 1..Len(RowsOfText)})

\* The table has two rows of one calendar day.
C14_Witness ==
  /\ pc = "returned"
  /\ \E r \in 1..(Len(result.df) - 1) :
       result.df[r].Date_dt = result.df[r + 1].Date_dt
  /\ Len(result.df) > Cardinality(CalendarDays)

\* The spelling of the earliest row of the text with the key.
EarliestSpelling(key) ==
  LET k == CHOOSE i \in 1..Len(RowsOfText) :
             /\ KeyOf(RowsOfText[i].event) = key
             /\ \A j \in 1..(i - 1) : KeyOf(RowsOfText[j].event) # key
  IN  str_strip(RowsOfText[k].event)

\* C15: the canonical label of a key is the description of the earliest row
\* of the whole text with that key, also when the rows of the dates are
\* interleaved and that row is in a bucket created after another bucket
\* that holds the key.
C15_LabelIsEarliestLine ==
  pc \notin {"constructed", "parsed"} =>
    \A key \in ParsedKeys : global_event_original[key] = EarliestSpelling(key)

-----------------------------------------------------------------------------
\* The rows of a table without the columns of the labels in gone.
WithoutColumns(rows, gone) ==
  [r \in 1..Len(rows) |->
     [rows[r] EXCEPT
        !.counts = [c \in DOMAIN rows[r].counts \ gone |-> rows[r].counts[c]]]]

\* C16: the tables returned with hide_stale_events true are those returned
\* for the same text with hide_stale_events false less the hidden columns:
\* the same rows in the same order, the same Date and Other cells and the
\* same counts in the columns that are left; the columns left and the labels
\* of the hidden summary are disjoint and together the regular labels.
C16_HidingOnlyDeletesColumns ==
  (pc = "returned" /\ hide_stale_events) =>
    LET plain  == run_analysis(data, FALSE)
        hidden == HiddenLabels
        NotHidden(c) == c \notin hidden
    IN  /\ plain.pc = "returned"
        /\ hidden \subseteq Elems(plain.result.columns)
        /\ result.columns = SelectSeq(plain.result.columns, NotHidden)
        /\ result.df = WithoutColumns(plain.result.df, hidden)
        /\ result.df_display = WithoutColumns(plain.result.df_display, hidden)
        /\ Elems(result.columns) \cap hidden = {}
        /\ Elems(result.columns) \cup hidden
             = {global_event_original[k] : k \in RegularKeys}

\* Of the two columns of the table without hiding one has been deleted.
C16_Witness ==
  /\ pc = "returned" /\ hide_stale_events
  /\ Len(result.columns) = 1
  /\ Len(run_analysis(data, FALSE).result.columns) = 2
  /\ \E r \in 1..Len(result.df) : \E c \in DOMAIN result.df[r].counts :
       result.df[r].counts[c] > 0

====
